---- MODULE Spec2Model ----
(***************************************************************************)
(* Model of the phase-state machine of src/tools.py (the _agent_state      *)
(* dictionary and the four Agent Management tools), of the instruction     *)
(* mutator StepPromptHook.on_tool_end of src/run.py, and of the event loop *)
(* of run_demo.                                                            *)
(*                                                                         *)
(* Text is modelled as a sequence of pieces: the prompt read from          *)
(* prompt.txt (one opaque piece, assumed to contain no phase clause), the  *)
(* separator "\n\n", and phase clauses.  A phase clause is the f-string of *)
(* run.py:64/70; it is kept as the tuple of its three formatted fields,    *)
(* which determines the string.  Substring search and str.replace on the   *)
(* text then act on whole pieces.                                          *)
(***************************************************************************)
EXTENDS Integers, Sequences, FiniteSets, TLC

VARIABLES
    current_phase_id,       \* _agent_state["current_phase_id"]: None or <<int>>
    goal,                   \* _agent_state["goal"]: None or <<str>>
    phases,                 \* _agent_state["phases"]: list of Phase
    completed,              \* _agent_state["completed"]
    scheduled_tasks,        \* _agent_state["scheduled_tasks"]
    hook_current_phase_id,  \* StepPromptHook.current_phase_id
    instructions,           \* agent.instructions
    hooks_due,              \* tool executions whose on_tool_end has not run yet
    call,                   \* the last tool call: name and arguments
    result,                 \* whether the last tool call returned or raised
    run_error,              \* an exception has failed the run: it escaped
                            \* on_tool_end, or the runner raised MaxTurnsExceeded
    events,                 \* stream events emitted and not yet consumed
    loop_state,             \* run_demo's async-for loop
    serial,                 \* no tool has been invoked while a hook was still due
    since_fire,             \* "never": on_tool_end has not fired yet; else whether
                            \* current_phase_id "changed" since it last fired, or is
                            \* the "same"
    e2e,                    \* progress along the end-to-end scenario
    turn,                   \* the runner's current_turn
    runner,                 \* where the runner is: about to ask the "model", running
                            \* the "tools" of a turn, or "complete" (final output)
    pc,                     \* for each tool call of a turn, where its task is
    running,                \* the task the event loop is running, 0 when none
    output,                 \* what the last call returned or raised, or what
                            \* run_demo printed for the last tool call
    files,                  \* the files under WORKSPACE_ROOT: path to content
    awaiting_input          \* message_ask_user is blocked in input()

plan_vars == <<current_phase_id, goal, phases, completed, scheduled_tasks>>
hook_vars == <<hook_current_phase_id, instructions, run_error>>
loop_vars == <<events, loop_state>>
obs_vars == <<serial, since_fire, e2e>>
turn_vars == <<turn, runner>>
task_vars == <<pc, running>>
\* What belongs to the specifications other than Spec, SpecTools and SpecTurns.
io_vars == <<output, files, awaiting_input>>
aside_vars == <<task_vars, io_vars>>
vars == <<current_phase_id, goal, phases, completed, scheduled_tasks,
          hook_current_phase_id, instructions, hooks_due, call, result,
          run_error, events, loop_state, serial, since_fire, e2e, turn, runner,
          pc, running, output, files, awaiting_input>>

(***************************************************************************)
(* Bounds of the model.                                                    *)
(***************************************************************************)
MaxPhaseId == 3     \* phase ids passed to the tools range over 0..MaxPhaseId
MaxRunPhaseId == 2  \* phase ids the model passes to the tools within a run
MaxText == 7        \* pieces of instruction text before tool calls stop
MaxSched == 2       \* entries of scheduled_tasks before scheduling stops
MaxRunSched == 1    \* the same, within a run
MaxParallel == 2    \* tool calls whose after-tool hook may be outstanding
MaxQueue == 2       \* stream events emitted and not yet consumed
MaxContent == 5     \* characters of a file that file_write writes

(***************************************************************************)
(* Optional values: Python's None, and a present value v.                  *)
(***************************************************************************)
None == <<>>
Some(v) == <<v>>

(***************************************************************************)
(* Input domains.                                                          *)
(***************************************************************************)
Phase(i, t, rc) == [id |-> i, title |-> t, required_capabilities |-> rc]

ReportPhases == << Phase(1, "research", "web-search"), Phase(2, "deliver", "messaging") >>
LongPhases == << Phase(1, "research", "web-search"), Phase(2, "draft", ""),
                 Phase(3, "deliver", "messaging") >>
SparsePhases == << Phase(2, "draft", ""), Phase(5, "deliver", "messaging") >>

PhaseIds == 0..MaxPhaseId
Goals == {"write report", "summarise"}
PhaseLists == {<<>>, ReportPhases, LongPhases, SparsePhases}

Opt(S) == {None} \cup {Some(x) : x \in S}

\* What the model passes within a run.
RunPhaseIds == 1..MaxRunPhaseId
RunGoals == {"write report"}
RunPhaseLists == {ReportPhases}

(***************************************************************************)
(* start_time texts.  A text is kept as its shape and its numeric fields:  *)
(* "2025-06-18 09:00:00" is shape "datetime" with fields                   *)
(* <<2025, 6, 18, 9, 0, 0>>, "2025-06-18" is shape "date", and a text that *)
(* is not of the form digits-digits-digits[ digits:digits:digits] is shape *)
(* "words".                                                                *)
(***************************************************************************)
TimeText(shape, fields) == [shape |-> shape, fields |-> fields]

StartTimes == { TimeText("datetime", <<2025, 6, 18, 9, 0, 0>>),
                TimeText("date", <<2025, 6, 18>>),
                TimeText("datetime", <<2025, 13, 1, 9, 0, 0>>),
                TimeText("words", <<>>) }

\* What the model passes within a run: one text that parses, one that
\* does not.
RunStartTimes == { TimeText("datetime", <<2025, 6, 18, 9, 0, 0>>), TimeText("words", <<>>) }

DaysIn(y, m) ==
    IF m \in {4, 6, 9, 11} THEN 30
    ELSE IF m = 2
         THEN (IF (y % 4 = 0 /\ y % 100 # 0) \/ y % 400 = 0 THEN 29 ELSE 28)
         ELSE 31

ValueError == [error |-> "ValueError"]

\* datetime.fromisoformat: the datetime the text denotes (a date alone is
\* midnight of that day), or ValueError.
fromisoformat(s) ==
    IF s.shape \notin {"date", "datetime"} THEN ValueError
    ELSE LET f == s.fields
             y == f[1]
             m == f[2]
             d == f[3]
             H == IF s.shape = "datetime" THEN f[4] ELSE 0
             M == IF s.shape = "datetime" THEN f[5] ELSE 0
             S == IF s.shape = "datetime" THEN f[6] ELSE 0
         IN  IF /\ y \in 1..9999
                /\ m \in 1..12
                /\ d >= 1
                /\ d <= DaysIn(y, m)
                /\ H \in 0..23
                /\ M \in 0..59
                /\ S \in 0..59
             THEN [year |-> y, month |-> m, day |-> d,
                   hour |-> H, minute |-> M, second |-> S]
             ELSE ValueError

(***************************************************************************)
(* Python list indexing lst[i], with i counted from 0 and a negative i     *)
(* counted from the end.  InRange is false where Python raises IndexError. *)
(***************************************************************************)
InRange(lst, i) == (i >= 0 /\ i < Len(lst)) \/ (i < 0 /\ 0 - i <= Len(lst))
Index(lst, i) == IF i >= 0 THEN lst[i + 1] ELSE lst[Len(lst) + i + 1]

(***************************************************************************)
(* Pieces of instruction text.                                             *)
(***************************************************************************)
NoPhase == Phase(0, "", "")
Prompt == [kind |-> "prompt", phase_id |-> 0, goal |-> "", phase |-> NoPhase]
Sep == [kind |-> "sep", phase_id |-> 0, goal |-> "", phase |-> NoPhase]

\* str() of _agent_state['goal'] inside the f-string.
FormatGoal(g) == IF g = None THEN "None" ELSE g[1]

\* The f-string of run.py:64 and run.py:70 for phase number n, goal g and
\* the Phase object ph.
PhaseClause(n, g, ph) ==
    [kind |-> "clause", phase_id |-> n, goal |-> FormatGoal(g), phase |-> ph]

IsClause(piece) == piece.kind = "clause"

\* `piece in text`
Contains(text, piece) == \E i \in 1..Len(text) : text[i] = piece

\* The separators are removed along with the clause.
Replace_with_separator(text, piece) == SelectSeq(text, LAMBDA x : x # piece /\ x # Sep)

\* text.replace(piece, ""): every occurrence is removed.
Replace(text, piece) == SelectSeq(text, LAMBDA x : x # piece)

Clauses(text) == SelectSeq(text, IsClause)

(***************************************************************************)
(* The Agent Management tools of tools.py, as they act on _agent_state.    *)
(* `result` is whether the function returned or raised.                    *)
(***************************************************************************)
Return == result' = [ok |-> TRUE, error |-> ""]
Raise(e) == result' = [ok |-> FALSE, error |-> e]

\* A replace-all update: an absent argument clears its field.
agent_update_plan_replace_all(c, g, p) ==
    /\ current_phase_id' = c
    /\ goal' = g
    /\ phases' = IF p # None THEN p[1] ELSE <<>>
    /\ UNCHANGED <<completed, scheduled_tasks>>
    /\ Return

agent_update_plan(c, g, p) ==
    /\ current_phase_id' = IF c # None THEN c ELSE current_phase_id
    /\ goal' = IF g # None THEN g ELSE goal
    /\ phases' = IF p # None THEN p[1] ELSE phases
    /\ UNCHANGED <<completed, scheduled_tasks>>
    /\ Return

\* The check compares with the target instead of the current phase.
agent_advance_phase_checks_target(f, t) ==
    IF current_phase_id # Some(t)
    THEN /\ Raise("ValueError")
         /\ UNCHANGED plan_vars
    ELSE /\ current_phase_id' = Some(t)
         /\ UNCHANGED <<goal, phases, completed, scheduled_tasks>>
         /\ Return

\* The assignment is made before the check.
agent_advance_phase_assigns_first(f, t) ==
    /\ current_phase_id' = Some(t)
    /\ UNCHANGED <<goal, phases, completed, scheduled_tasks>>
    /\ IF current_phase_id # Some(f) THEN Raise("ValueError") ELSE Return

\* Advancing reopens the task.
agent_advance_phase_reopens(f, t) ==
    IF current_phase_id # Some(f)
    THEN /\ Raise("ValueError")
         /\ UNCHANGED plan_vars
    ELSE /\ current_phase_id' = Some(t)
         /\ completed' = FALSE
         /\ UNCHANGED <<goal, phases, scheduled_tasks>>
         /\ Return

agent_advance_phase(f, t) ==
    IF current_phase_id # Some(f)
    THEN /\ Raise("ValueError")
         /\ UNCHANGED plan_vars
    ELSE /\ current_phase_id' = Some(t)
         /\ UNCHANGED <<goal, phases, completed, scheduled_tasks>>
         /\ Return

\* The flag is toggled instead of set.
agent_end_task_toggles ==
    /\ completed' = ~completed
    /\ UNCHANGED <<current_phase_id, goal, phases, scheduled_tasks>>
    /\ Return

agent_end_task ==
    /\ completed' = TRUE
    /\ UNCHANGED <<current_phase_id, goal, phases, scheduled_tasks>>
    /\ Return

\* A task that is already scheduled is not recorded again.
agent_schedule_task_dedups(d, k, s) ==
    LET start_dt == fromisoformat(s)
        entry == [task_description |-> d, schedule_type |-> k, start_time |-> start_dt]
    IN
    IF start_dt = ValueError
    THEN /\ Raise("ValueError")
         /\ UNCHANGED plan_vars
    ELSE /\ scheduled_tasks' = IF Contains(scheduled_tasks, entry)
                               THEN scheduled_tasks
                               ELSE Append(scheduled_tasks, entry)
         /\ UNCHANGED <<current_phase_id, goal, phases, completed>>
         /\ Return

agent_schedule_task(d, k, s) ==
    LET start_dt == fromisoformat(s) IN
    IF start_dt = ValueError
    THEN /\ Raise("ValueError")
         /\ UNCHANGED plan_vars
    ELSE /\ scheduled_tasks' = Append(scheduled_tasks,
                                      [task_description |-> d, schedule_type |-> k,
                                       start_time |-> start_dt])
         /\ UNCHANGED <<current_phase_id, goal, phases, completed>>
         /\ Return

\* The messaging, file and search tools: none of them reads or writes
\* _agent_state.  ok is whether the tool returned or raised.
OtherTools == {"file_write", "message_notify_user", "file_read"}
RunOtherTools == {"file_write", "message_notify_user"}
MayRaise(name) == name # "message_notify_user"

other_tool(name, ok) ==
    /\ UNCHANGED plan_vars
    /\ IF ok THEN Return ELSE Raise("Exception")

(***************************************************************************)
(* StepPromptHook.on_tool_end.  An exception that leaves it sets           *)
(* run_error; what it assigned before raising stays assigned.              *)
(***************************************************************************)
\* The check is left out.
SamePhaseUnchecked == FALSE

\* run.py:59: the hook has already seen this phase id.
SamePhase == hook_current_phase_id = current_phase_id

\* The previous clause is built with the current phase's list index.
LastPhaseWrongIndex(n) == PhaseClause(n - 1, goal, Index(phases, n - 1))

\* run.py:64: the clause of the phase before phase number n.
LastPhase(n) == PhaseClause(n - 1, goal, Index(phases, n - 2))

\* run.py:70: the clause of phase number n.
CurrentPhase(n) == PhaseClause(n, goal, Index(phases, n - 1))

on_tool_end ==
    LET phase_id == current_phase_id IN
    IF SamePhase
    THEN UNCHANGED hook_vars
    ELSE IF phase_id = None
    THEN \* `None > 1` raises TypeError
         /\ run_error' = TRUE
         /\ UNCHANGED <<hook_current_phase_id, instructions>>
    ELSE LET n == phase_id[1] IN
         IF n > 1 /\ ~InRange(phases, n - 2)
         THEN \* phases[phase_id-2] raises IndexError
              /\ run_error' = TRUE
              /\ UNCHANGED <<hook_current_phase_id, instructions>>
         ELSE LET kept == IF n > 1 /\ Contains(instructions, LastPhase(n))
                          THEN Replace(instructions, LastPhase(n))
                          ELSE instructions
              IN  /\ hook_current_phase_id' = phase_id
                  /\ IF InRange(phases, n - 1)
                     THEN /\ instructions' = kept \o <<Sep, CurrentPhase(n)>>
                          /\ UNCHANGED run_error
                     ELSE \* phases[phase_id-1] raises IndexError
                          /\ instructions' = kept
                          /\ run_error' = TRUE

(***************************************************************************)
(* Stream events of Runner.run_streamed, and the body of run_demo's loop.  *)
(***************************************************************************)
AgentUpdated == [type |-> "agent_updated_stream_event", item |-> "", name |-> ""]
ToolCallEvent(name) ==
    [type |-> "run_item_stream_event", item |-> "tool_call_item", name |-> name]
ToolOutput == [type |-> "run_item_stream_event", item |-> "tool_call_output_item", name |-> ""]
MessageOutput == [type |-> "run_item_stream_event", item |-> "message_output_item", name |-> ""]
PlainEvents == {AgentUpdated, ToolOutput, MessageOutput}

\* The loop is left on every tool call, not only on agent_end_task.
run_demo_event_any_tool ==
    /\ loop_state = "Running"
    /\ events # <<>>
    /\ LET event == Head(events) IN
       /\ events' = Tail(events)
       /\ IF event.type = "agent_updated_stream_event"
          THEN UNCHANGED loop_state
          ELSE IF event.item = "tool_call_item"
          THEN loop_state' = "Terminated"
          ELSE UNCHANGED loop_state

run_demo_event ==
    /\ loop_state = "Running"
    /\ events # <<>>
    /\ LET event == Head(events) IN
       /\ events' = Tail(events)
       /\ IF event.type = "agent_updated_stream_event"
          THEN UNCHANGED loop_state
          ELSE IF event.item = "tool_call_item" /\ event.name = "agent_end_task"
          THEN loop_state' = "Terminated"
          ELSE UNCHANGED loop_state

(***************************************************************************)
(* The end-to-end scenario: e2e counts how many of its steps the run has   *)
(* taken so far, in order and with nothing else in between; Off once the   *)
(* run has left the scenario.                                              *)
(***************************************************************************)
Scenario == <<"plan", "hook", "file_write", "hook", "advance", "hook",
              "notify", "hook", "end_task">>
Off == Len(Scenario) + 1

Track(step) ==
    e2e' = IF e2e < Len(Scenario) /\ Scenario[e2e + 1] = step THEN e2e + 1
           ELSE IF e2e = Len(Scenario) /\ step = "hook" THEN e2e
           ELSE Off

PlanStep(c, g, p) ==
    IF c = Some(1) /\ g = Some("write report") /\ p = Some(ReportPhases)
    THEN "plan" ELSE "other"
AdvanceStep(f, t) == IF f = 1 /\ t = 2 THEN "advance" ELSE "other"
OtherStep(name, ok) ==
    IF name = "file_write" /\ ok THEN "file_write"
    ELSE IF name = "message_notify_user" /\ ok THEN "notify"
    ELSE "other"

Request(name, args) == [tool |-> name, args |-> args]

(***************************************************************************)
(* A tool called directly, outside any run: no hook, no stream.            *)
(***************************************************************************)
Direct(executes, name, args) ==
    /\ executes
    /\ call' = Request(name, args)
    /\ UNCHANGED <<hook_vars, hooks_due, loop_vars, obs_vars, turn_vars, aside_vars>>

(***************************************************************************)
(* A tool call of the agent: the function-tool wrapper executes the tool   *)
(* and owes the agent hook one on_tool_end.                                *)
(***************************************************************************)
\* The loop has not left by `break`.  After the break run_demo returns and
\* asyncio.run ends the runner's task, so nothing of the run acts any more.
Running == loop_state = "Running"

\* The exception of a failed tool is not caught: it fails the run.
Invoke_failure_fatal(executes, name) ==
    /\ Running
    /\ ~run_error
    /\ hooks_due < MaxParallel
    /\ Len(instructions) + 2 * (hooks_due + 1) <= MaxText
    /\ executes
    /\ call' = Request(name, <<>>)
    /\ hooks_due' = hooks_due + 1
    /\ run_error' = ~result'.ok
    /\ UNCHANGED <<hook_current_phase_id, instructions>>
    /\ serial' = (serial /\ hooks_due = 0)
    /\ since_fire' = IF since_fire = "same" /\ current_phase_id' # current_phase_id
                     THEN "changed" ELSE since_fire

Invoke(executes, name) ==
    /\ Running
    /\ ~run_error
    /\ hooks_due < MaxParallel
    /\ Len(instructions) + 2 * (hooks_due + 1) <= MaxText
    /\ executes
    /\ call' = Request(name, <<>>)
    /\ hooks_due' = hooks_due + 1
    /\ UNCHANGED hook_vars
    /\ serial' = (serial /\ hooks_due = 0)
    /\ since_fire' = IF since_fire = "same" /\ current_phase_id' # current_phase_id
                     THEN "changed" ELSE since_fire

\* Within a run the runner also emits the call's tool-call event.
Dispatch(executes, name, step) ==
    /\ Len(events) < MaxQueue
    /\ Invoke(executes, name)
    /\ events' = Append(events, ToolCallEvent(name))
    /\ UNCHANGED loop_state
    /\ Track(step)
    /\ UNCHANGED <<turn_vars, aside_vars>>

\* The agent hook fires for one finished tool call.
ToolEnd ==
    /\ Running
    /\ hooks_due > 0
    /\ on_tool_end
    /\ hooks_due' = hooks_due - 1
    /\ UNCHANGED <<plan_vars, call, result, loop_vars, serial, turn_vars, aside_vars>>
    /\ since_fire' = "same"
    /\ Track("hook")

\* The runner emits an event that is not a tool call.
Emit ==
    /\ Running
    /\ ~run_error
    /\ Len(events) < MaxQueue
    /\ \E ev \in PlainEvents : events' = Append(events, ev)
    /\ UNCHANGED <<plan_vars, hook_vars, hooks_due, call, result, loop_state, obs_vars,
                   turn_vars, aside_vars>>

StreamEvent ==
    /\ run_demo_event
    /\ UNCHANGED <<plan_vars, hook_vars, hooks_due, call, result, obs_vars, turn_vars, aside_vars>>

\* The tool calls of one turn: the runner gathers one task for each.
Tasks == 1..MaxParallel

(***************************************************************************)
(* What a call hands back: the text it returned, as a sequence of strings  *)
(* (the parts of a formatted string, or lines), or the exception it        *)
(* raised.  raw carries raw.arguments where run_demo prints it.            *)
(***************************************************************************)
JsonText(shape, members) == [shape |-> shape, members |-> members]
NoRaw == JsonText("none", <<>>)

Returned(text) == [ok |-> TRUE, error |-> "", text |-> text, raw |-> NoRaw]
Failed(e) == [ok |-> FALSE, error |-> e, text |-> <<>>, raw |-> NoRaw]

\* An empty workspace.
NoFiles == <<>>

Init ==
    /\ current_phase_id = None
    /\ goal = None
    /\ phases = <<>>
    /\ completed = FALSE
    /\ scheduled_tasks = <<>>
    /\ hook_current_phase_id = None
    /\ instructions = <<Prompt>>
    /\ hooks_due = 0
    /\ call = Request("", <<>>)
    /\ result = [ok |-> TRUE, error |-> ""]
    /\ run_error = FALSE
    /\ events = <<>>
    /\ loop_state = "Running"
    /\ serial = TRUE
    /\ since_fire = "never"
    /\ e2e = 0
    /\ turn = 0
    /\ runner = "model"
    /\ pc = [t \in Tasks |-> "done"]
    /\ running = 0
    /\ output = Returned(<<>>)
    /\ files = NoFiles
    /\ awaiting_input = FALSE

(***************************************************************************)
(* Spec: one run of run_demo.                                              *)
(***************************************************************************)
UpdatePlan ==
    \E c \in Opt(RunPhaseIds), g \in Opt(RunGoals), p \in Opt(RunPhaseLists) :
        Dispatch(agent_update_plan(c, g, p), "agent_update_plan", PlanStep(c, g, p))

AdvancePhase ==
    \E f \in RunPhaseIds, t \in RunPhaseIds :
        Dispatch(agent_advance_phase(f, t), "agent_advance_phase", AdvanceStep(f, t))

EndTask == Dispatch(agent_end_task, "agent_end_task", "end_task")

ScheduleTask ==
    /\ Len(scheduled_tasks) < MaxRunSched
    /\ \E s \in RunStartTimes :
          Dispatch(agent_schedule_task("send report", "once", s),
                   "agent_schedule_task", "other")

OtherTool ==
    \E name \in RunOtherTools, ok \in BOOLEAN :
        /\ ok \/ MayRaise(name)
        /\ Dispatch(other_tool(name, ok), name, OtherStep(name, ok))

Next ==
    \/ UpdatePlan
    \/ AdvancePhase
    \/ EndTask
    \/ ScheduleTask
    \/ OtherTool
    \/ ToolEnd
    \/ Emit
    \/ StreamEvent

Spec == Init /\ [][Next]_vars

(***************************************************************************)
(* SpecTools: the tools of tools.py called directly, in any order and with *)
(* any arguments, as a test of the module would call them.                 *)
(***************************************************************************)
CallUpdatePlan ==
    \E c \in Opt(PhaseIds), g \in Opt(Goals), p \in Opt(PhaseLists) :
        Direct(agent_update_plan(c, g, p), "agent_update_plan", <<c, g, p>>)

CallAdvancePhase ==
    \E f \in PhaseIds, t \in PhaseIds :
        Direct(agent_advance_phase(f, t), "agent_advance_phase", <<f, t>>)

CallEndTask == Direct(agent_end_task, "agent_end_task", <<>>)

CallScheduleTask ==
    /\ Len(scheduled_tasks) < MaxSched
    /\ \E s \in StartTimes :
          Direct(agent_schedule_task("send report", "once", s),
                 "agent_schedule_task", <<"send report", "once", s>>)

CallOtherTool ==
    \E name \in OtherTools, ok \in BOOLEAN :
        /\ ok \/ MayRaise(name)
        /\ Direct(other_tool(name, ok), name, <<>>)

ToolsNext ==
    \/ CallUpdatePlan
    \/ CallAdvancePhase
    \/ CallEndTask
    \/ CallScheduleTask
    \/ CallOtherTool

SpecTools == Init /\ [][ToolsNext]_vars

(***************************************************************************)
(* JSON texts and what json.loads makes of them.  raw.arguments is kept as *)
(* its shape: the text of a JSON object with the given members, of a JSON  *)
(* array, or a text that is no JSON ("malformed"); "absent" is a raw item  *)
(* without the attribute.  A member is a JSON string, number or null.      *)
(***************************************************************************)
JsonValue(kind, text) == [json |-> kind, text |-> text]
JsonValues == { JsonValue("string", "notes.txt"), JsonValue("number", "2"),
                JsonValue("null", "null") }
ArgKeys == {"path", "destination"}
JsonObjects == UNION { [K -> JsonValues] : K \in SUBSET ArgKeys }
RawArguments == { JsonText("object", m) : m \in JsonObjects }
                    \cup { JsonText("array", <<>>), JsonText("malformed", <<>>),
                           JsonText("absent", <<>>) }

PyValue(type, value) == [py |-> type, value |-> value]
PyNone == PyValue("NoneType", "")
KeyError == PyValue("KeyError", "")

\* The Python value of a JSON member.
loads_value(v) ==
    IF v.json = "null" THEN PyNone
    ELSE IF v.json = "number" THEN PyValue("int", v.text)
    ELSE PyValue("str", v.text)

\* str(x) inside an f-string.
str(x) == IF x.py = "NoneType" THEN "None" ELSE x.value

JSONDecodeError == [py |-> "JSONDecodeError", items |-> <<>>]

json_loads(t) ==
    IF t.shape = "malformed" THEN JSONDecodeError
    ELSE IF t.shape = "object"
    THEN [py |-> "dict", items |-> [k \in DOMAIN t.members |-> loads_value(t.members[k])]]
    ELSE [py |-> "list", items |-> <<>>]

\* Every argument mapping over ArgKeys.
Dicts == { json_loads(JsonText("object", m)) : m \in JsonObjects }

(***************************************************************************)
(* tool_description_map and get_tool_description of tools.py.  A renderer  *)
(* is the f-string of its lambda: literal parts and args.get(key) parts.   *)
(***************************************************************************)
Lit(s) == [lit |-> s, key |-> ""]
Arg(k) == [lit |-> "", key |-> k]

RegisteredTools ==
    { "file_write", "file_replace_text", "file_append_text", "file_delete", "file_read",
      "file_list", "file_make_dir", "file_copy", "file_move", "agent_update_plan",
      "agent_advance_phase", "agent_end_task", "agent_schedule_task",
      "message_notify_user", "message_ask_user", "message_email_user", "info_search_web" }

tool_description_map ==
    [ name \in RegisteredTools |->
        CASE name = "file_write" -> <<Lit("Creating file "), Arg("path")>>
          [] name = "file_replace_text" -> <<Lit("Editing file "), Arg("path")>>
          [] name = "file_append_text" -> <<Lit("Adding content to file "), Arg("path")>>
          [] name = "file_delete" -> <<Lit("Deleting file "), Arg("path")>>
          [] name = "file_read" -> <<Lit("Reading file "), Arg("file")>>
          [] name = "file_list" -> <<Lit("Listing contents of directory "), Arg("path")>>
          [] name = "file_make_dir" -> <<Lit("Creating directory "), Arg("path")>>
          [] name = "file_copy" ->
                <<Lit("Copying "), Arg("source"), Lit(" to "), Arg("destination")>>
          [] name = "file_move" ->
                <<Lit("Moving "), Arg("source"), Lit(" to "), Arg("destination")>>
          [] name = "agent_update_plan" -> <<Lit("Updating task plan")>>
          [] name = "agent_advance_phase" ->
                <<Lit("Advancing from phase "), Arg("from_phase_id"), Lit(" to "),
                  Arg("to_phase_id")>>
          [] name = "agent_end_task" -> <<Lit("Ending current task")>>
          [] name = "agent_schedule_task" ->
                <<Lit("Scheduling task: "), Arg("task_description")>>
          [] name = "message_notify_user" -> <<Lit("Sending notification to user")>>
          [] name = "message_ask_user" -> <<Lit("Asking user for input")>>
          [] name = "message_email_user" -> <<Lit("Sending email to "), Arg("recipient")>>
          [] name = "info_search_web" -> <<Lit("Searching web for: "), Arg("query")>> ]

\* Names of tool calls: the registered ones and two that are not.
ToolNames == RegisteredTools \cup {"code_runner", ""}

\* args[key]: a missing key raises KeyError.
dict_getitem(args, key) ==
    IF key \in DOMAIN args.items THEN args.items[key] ELSE KeyError

\* args.get(key): a missing key gives None.
dict_get(args, key) ==
    IF key \in DOMAIN args.items THEN args.items[key] ELSE PyNone

\* A renderer applied to args: `.get` on a value that is no dict raises
\* AttributeError, and what a lookup raises leaves the renderer.
Render(parts, args) ==
    LET looked == [i \in 1..Len(parts) |->
                     IF parts[i].key = "" THEN PyValue("str", parts[i].lit)
                     ELSE IF args.py # "dict" THEN PyValue("AttributeError", "")
                     ELSE dict_get(args, parts[i].key)]
        raised == {i \in 1..Len(parts) : looked[i].py \in {"AttributeError", "KeyError"}}
    IN  IF raised # {}
        THEN Failed(looked[CHOOSE i \in raised : \A j \in raised : i <= j].py)
        ELSE Returned([i \in 1..Len(parts) |-> str(looked[i])])

get_tool_description(tool_name, args) ==
    IF tool_name \in DOMAIN tool_description_map
    THEN Render(tool_description_map[tool_name], args)
    ELSE Returned(<<"Using tool: ", tool_name>>)

\* run.py:157-164: what run_demo prints for a tool call that is not
\* agent_end_task.
print_tool_call(name, arguments) ==
    LET text == IF arguments.shape = "absent" THEN JsonText("object", <<>>) ELSE arguments
        args == json_loads(text)
        description == get_tool_description(name, args)
        fallback == [ok |-> TRUE, error |-> "",
                     text |-> <<"[Tool Call] ", name, "Arguments: ">>, raw |-> text]
    IN  IF args = JSONDecodeError THEN fallback
        ELSE IF ~description.ok THEN fallback
        ELSE Returned(<<"[Tool Call] ">> \o description.text)

\* The state of the run, which calls outside a run leave alone.
run_vars == <<plan_vars, hook_vars, hooks_due, result, loop_vars, obs_vars, turn_vars,
              task_vars>>

(***************************************************************************)
(* SpecRender: get_tool_description called with any name and any argument  *)
(* mapping, and run_demo printing tool calls with any raw arguments.       *)
(***************************************************************************)
CallGetToolDescription ==
    \E name \in ToolNames, args \in Dicts :
        /\ output' = get_tool_description(name, args)
        /\ call' = Request("get_tool_description", <<name, args>>)
        /\ UNCHANGED <<run_vars, files, awaiting_input>>

PrintToolCall ==
    \E name \in ToolNames \ {"agent_end_task"}, arguments \in RawArguments :
        /\ loop_state = "Running"
        /\ output' = print_tool_call(name, arguments)
        /\ call' = Request(name, <<arguments>>)
        /\ UNCHANGED <<run_vars, files, awaiting_input>>

RenderNext ==
    \/ CallGetToolDescription
    \/ PrintToolCall

SpecRender == Init /\ [][RenderNext]_vars

(***************************************************************************)
(* The file tools of tools.py.  A text is the sequence of its characters;  *)
(* a file is written with the characters a and newline, and replacements   *)
(* can bring in b.                                                         *)
(***************************************************************************)
Contents == UNION { [1..n -> {"a", "\n"}] : n \in 0..MaxContent }
OldTexts == { <<"a">>, <<"a", "\n">>, <<"b">>, <<>> }
NewTexts == { <<>>, <<"b">> }
LineNumbers == (0 - 1)..(MaxContent + 1)
Paths == {"notes.txt"}

\* str.count: occurrences found from the left, none overlapping another;
\* the empty text occurs before every character and at the end.
RECURSIVE str_count(_, _)
str_count(text, old) ==
    IF old = <<>> THEN Len(text) + 1
    ELSE IF Len(text) < Len(old) THEN 0
    ELSE IF SubSeq(text, 1, Len(old)) = old
    THEN 1 + str_count(SubSeq(text, Len(old) + 1, Len(text)), old)
    ELSE str_count(Tail(text), old)

\* str.replace: each of those occurrences becomes new.
RECURSIVE str_replace(_, _, _)
str_replace(text, old, new) ==
    IF old = <<>>
    THEN (IF text = <<>> THEN new
          ELSE new \o <<Head(text)>> \o str_replace(Tail(text), old, new))
    ELSE IF Len(text) < Len(old) THEN text
    ELSE IF SubSeq(text, 1, Len(old)) = old
    THEN new \o str_replace(SubSeq(text, Len(old) + 1, Len(text)), old, new)
    ELSE <<Head(text)>> \o str_replace(Tail(text), old, new)

\* str.splitlines: the lines without their newlines; a newline at the end
\* of the text opens no further line.  line is the line read so far.
RECURSIVE splitlines_from(_, _)
splitlines_from(text, line) ==
    IF text = <<>> THEN (IF line = <<>> THEN <<>> ELSE <<line>>)
    ELSE IF Head(text) = "\n" THEN <<line>> \o splitlines_from(Tail(text), <<>>)
    ELSE splitlines_from(Tail(text), Append(line, Head(text)))

splitlines(text) == splitlines_from(text, <<>>)

\* sep.join(texts)
RECURSIVE join(_, _)
join(sep, texts) ==
    IF texts = <<>> THEN <<>>
    ELSE IF Len(texts) = 1 THEN texts[1]
    ELSE texts[1] \o <<sep>> \o join(sep, Tail(texts))

\* An empty range passes the check.
InvalidRange_allows_empty(start, end, n) == start < 0 \/ end > n \/ start > end

\* tools.py:325
InvalidRange(start, end, n) == start < 0 \/ end > n \/ start >= end

file_read(file, start_line, end_line) ==
    /\ UNCHANGED files
    /\ IF file \notin DOMAIN files THEN output' = Failed("FileNotFoundError")
       ELSE LET content == files[file] IN
            IF start_line = None /\ end_line = None THEN output' = Returned(content)
            ELSE LET lines == splitlines(content)
                     start == IF start_line # None THEN start_line[1] ELSE 0
                     end == IF end_line # None THEN end_line[1] ELSE Len(lines)
                 IN  IF InvalidRange(start, end, Len(lines))
                     THEN output' = Failed("ValueError")
                     ELSE output' = Returned(join("\n", SubSeq(lines, start + 1, end)))

file_write(path, content) ==
    /\ files' = [p \in DOMAIN files \cup {path} |-> IF p = path THEN content ELSE files[p]]
    /\ output' = Returned(<<"File written: ", path>>)

file_replace_text(path, old_text, new_text) ==
    IF path \notin DOMAIN files
    THEN /\ output' = Failed("FileNotFoundError")
         /\ UNCHANGED files
    ELSE LET content == files[path] IN
         IF str_count(content, old_text) > 1
         THEN /\ output' = Failed("ValueError")
              /\ UNCHANGED files
         ELSE /\ files' = [files EXCEPT ![path] = str_replace(content, old_text, new_text)]
              /\ output' = Returned(<<"File edited: ", path>>)

file_delete(path) ==
    /\ files' = [p \in DOMAIN files \ {path} |-> files[p]]
    /\ output' = Returned(<<"File deleted: ", path>>)

(***************************************************************************)
(* SpecFiles: the file tools called directly on one file of the workspace. *)
(***************************************************************************)
CallFileRead ==
    \E file \in Paths, start_line \in Opt(LineNumbers), end_line \in Opt(LineNumbers) :
        /\ file_read(file, start_line, end_line)
        /\ call' = Request("file_read", <<file, start_line, end_line>>)
        /\ UNCHANGED <<run_vars, awaiting_input>>

CallFileWrite ==
    \E path \in Paths, content \in Contents :
        /\ file_write(path, content)
        /\ call' = Request("file_write", <<path, content>>)
        /\ UNCHANGED <<run_vars, awaiting_input>>

CallFileReplaceText ==
    \E path \in Paths, old_text \in OldTexts, new_text \in NewTexts :
        /\ file_replace_text(path, old_text, new_text)
        /\ call' = Request("file_replace_text", <<path, old_text, new_text>>)
        /\ UNCHANGED <<run_vars, awaiting_input>>

CallFileDelete ==
    \E path \in Paths :
        /\ file_delete(path)
        /\ call' = Request("file_delete", <<path>>)
        /\ UNCHANGED <<run_vars, awaiting_input>>

FilesNext ==
    \/ CallFileRead
    \/ CallFileWrite
    \/ CallFileReplaceText
    \/ CallFileDelete

SpecFiles == Init /\ [][FilesNext]_vars

(***************************************************************************)
(* message_ask_user of tools.py.  A text is kept whole, as a sequence of   *)
(* one string.  While the call is blocked in input(), output is what it    *)
(* has printed: the attachments line, if any, and the prompt.              *)
(***************************************************************************)
OptionLists == { <<>>, << <<"yes">> >>, << <<"yes">>, <<"no">> >> }

\* Truth value of an Optional[List]: None and the empty list are false.
Truthy(x) == x # None /\ x[1] # <<>>

message_ask_user(text, attachments, options) ==
    LET shown == IF Truthy(attachments)
                 THEN <<"[Ask] Attachments: ">> \o join(", ", attachments[1]) \o <<"\n">>
                 ELSE <<>>
        prompt == <<"[Ask] ", text, "\n">>
    IN  IF Truthy(options)
        THEN IF ~Truthy(options)
             THEN /\ output' = Failed("ValueError")
                  /\ UNCHANGED awaiting_input
             ELSE /\ output' = Returned(shown \o prompt \o join(" / ", options[1])
                                          \o <<"\n> ">>)
                  /\ awaiting_input' = TRUE
        ELSE /\ output' = Returned(shown \o prompt \o <<"> ">>)
             /\ awaiting_input' = TRUE

(***************************************************************************)
(* SpecMessages: message_ask_user called directly, and the user answering. *)
(***************************************************************************)
CallMessageAskUser ==
    \E text \in {"Proceed?", "Which file?", "Send it?"},
       attachments \in Opt({<<>>, << <<"notes.txt">> >>}),
       options \in Opt(OptionLists) :
        /\ ~awaiting_input
        /\ message_ask_user(text, attachments, options)
        /\ call' = Request("message_ask_user", <<text, attachments, options>>)
        /\ UNCHANGED <<run_vars, files>>

\* The user types a line: input() returns it and so does the call.
UserReplies ==
    \E line \in {"yes", "no", ""} :
        /\ awaiting_input
        /\ awaiting_input' = FALSE
        /\ output' = Returned(<<line>>)
        /\ UNCHANGED <<run_vars, files, call>>

MessagesNext ==
    \/ CallMessageAskUser
    \/ UserReplies

SpecMessages == Init /\ [][MessagesNext]_vars

(***************************************************************************)
(* SpecTurns: one run of run_demo seen turn by turn, up to its end.  The   *)
(* runner counts a turn for every response it asks of the model and raises *)
(* MaxTurnsExceeded when the count passes max_turns; a response is tool    *)
(* calls or the final output.  What the runner raises, it raises into      *)
(* run_demo's loop through stream_events(), and run_demo catches nothing.  *)
(***************************************************************************)
max_turns == 70

TurnInvoke(executes, name) ==
    /\ Running
    /\ ~run_error
    /\ runner \in {"model", "tools"}
    /\ runner = "model" => turn < max_turns
    /\ hooks_due < MaxParallel
    /\ Len(instructions) + 2 * (hooks_due + 1) <= MaxText
    /\ Len(events) < MaxQueue
    /\ executes
    /\ call' = Request(name, <<>>)
    /\ hooks_due' = hooks_due + 1
    /\ events' = Append(events, ToolCallEvent(name))
    /\ turn' = IF runner = "model" THEN turn + 1 ELSE turn
    /\ runner' = "tools"
    /\ UNCHANGED <<hook_vars, loop_state, obs_vars, aside_vars>>

TurnUpdatePlan ==
    \E c \in RunPhaseIds, p \in Opt(RunPhaseLists) :
        TurnInvoke(agent_update_plan(Some(c), Some("write report"), p), "agent_update_plan")

TurnEndTask == TurnInvoke(agent_end_task, "agent_end_task")

TurnOtherTool ==
    \E ok \in BOOLEAN : TurnInvoke(other_tool("file_write", ok), "file_write")

TurnToolEnd ==
    /\ Running
    /\ hooks_due > 0
    /\ on_tool_end
    /\ hooks_due' = hooks_due - 1
    /\ UNCHANGED <<plan_vars, call, result, loop_vars, obs_vars, turn_vars, aside_vars>>

\* The tool calls of the turn are done: the runner goes back to the model.
TurnDone ==
    /\ Running
    /\ ~run_error
    /\ runner = "tools"
    /\ hooks_due = 0
    /\ runner' = "model"
    /\ UNCHANGED <<plan_vars, hook_vars, hooks_due, call, result, loop_vars, obs_vars, turn, aside_vars>>

\* The model answers with a message and no tool call: the run is complete.
FinalOutput ==
    /\ Running
    /\ ~run_error
    /\ runner = "model"
    /\ turn < max_turns
    /\ Len(events) < MaxQueue
    /\ turn' = turn + 1
    /\ events' = Append(events, MessageOutput)
    /\ runner' = "complete"
    /\ UNCHANGED <<plan_vars, hook_vars, hooks_due, call, result, loop_state, obs_vars, aside_vars>>

\* current_turn passes max_turns: the runner raises MaxTurnsExceeded.
MaxTurnsExceeded ==
    /\ Running
    /\ ~run_error
    /\ runner = "model"
    /\ turn = max_turns
    /\ turn' = turn + 1
    /\ run_error' = TRUE
    /\ UNCHANGED <<plan_vars, hook_current_phase_id, instructions, hooks_due, call, result,
                   loop_vars, obs_vars, runner, aside_vars>>

TurnStreamEvent ==
    /\ run_demo_event
    /\ UNCHANGED <<plan_vars, hook_vars, hooks_due, call, result, obs_vars, turn_vars, aside_vars>>

\* stream_events() raises the run's exception into the async-for; run_demo
\* has no handler, so it leaves run_demo and asyncio.run.
StreamRaises ==
    /\ Running
    /\ run_error
    /\ loop_state' = "Raised"
    /\ UNCHANGED <<plan_vars, hook_vars, hooks_due, call, result, events, obs_vars, turn_vars, aside_vars>>

\* The stream of a complete run is exhausted: the async-for ends.
StreamEnds ==
    /\ Running
    /\ ~run_error
    /\ runner = "complete"
    /\ events = <<>>
    /\ loop_state' = "Ended"
    /\ UNCHANGED <<plan_vars, hook_vars, hooks_due, call, result, events, obs_vars, turn_vars, aside_vars>>

TurnsNext ==
    \/ TurnUpdatePlan
    \/ TurnEndTask
    \/ TurnOtherTool
    \/ TurnToolEnd
    \/ TurnDone
    \/ FinalOutput
    \/ MaxTurnsExceeded
    \/ TurnStreamEvent
    \/ StreamRaises
    \/ StreamEnds

SpecTurns == Init /\ [][TurnsNext]_vars

(***************************************************************************)
(* SpecAsync: the tool calls of a turn as tasks of the asyncio event loop. *)
(* The agent allows several tool calls in one response                     *)
(* (parallel_tool_calls=True) and the runner gathers a task for each.  A   *)
(* task is "ready", then inside its "tool" function, then "awaiting" its   *)
(* on_tool_end, then inside the "hook", then "done".  The event loop runs  *)
(* one task at a time and takes another only where the running one awaits; *)
(* the tool functions of tools.py are plain `def`s and on_tool_end         *)
(* contains no await, so a task leaves a body only at its end.  run_demo's *)
(* loop is a task of the same event loop.                                  *)
(***************************************************************************)
InBody(t) == pc[t] \in {"tool", "hook"}

\* The model's response asks for k tool calls.
Gather ==
    /\ Running
    /\ ~run_error
    /\ running = 0
    /\ \A t \in Tasks : pc[t] = "done"
    /\ \E k \in Tasks : pc' = [t \in Tasks |-> IF t <= k THEN "ready" ELSE "done"]
    /\ UNCHANGED <<plan_vars, hook_vars, hooks_due, call, result, loop_vars, obs_vars,
                   turn_vars, io_vars, running>>

\* Another thread takes a task while one is inside a body.
Resume_preempts(t) ==
    /\ Running
    /\ \/ /\ pc[t] = "ready"
          /\ ~run_error
          /\ Len(instructions) + 2 * (hooks_due + 1) <= MaxText
          /\ Len(events) < MaxQueue
          /\ pc' = [pc EXCEPT ![t] = "tool"]
       \/ /\ pc[t] = "awaiting"
          /\ pc' = [pc EXCEPT ![t] = "hook"]
    /\ running' = t
    /\ UNCHANGED <<plan_vars, hook_vars, hooks_due, call, result, loop_vars, obs_vars,
                   turn_vars, io_vars>>

\* The event loop, with no task running, takes task t: t enters its tool
\* function or its on_tool_end.
Resume(t) ==
    /\ Running
    /\ running = 0
    /\ \/ /\ pc[t] = "ready"
          /\ ~run_error
          /\ Len(instructions) + 2 * (hooks_due + 1) <= MaxText
          /\ Len(events) < MaxQueue
          /\ pc' = [pc EXCEPT ![t] = "tool"]
       \/ /\ pc[t] = "awaiting"
          /\ pc' = [pc EXCEPT ![t] = "hook"]
    /\ running' = t
    /\ UNCHANGED <<plan_vars, hook_vars, hooks_due, call, result, loop_vars, obs_vars,
                   turn_vars, io_vars>>

\* Task t runs its tool function to its end and awaits its on_tool_end.
AsyncInvoke(t, executes, name) ==
    /\ Running
    /\ pc[t] = "tool"
    /\ executes
    /\ call' = Request(name, <<>>)
    /\ hooks_due' = hooks_due + 1
    /\ events' = Append(events, ToolCallEvent(name))
    /\ pc' = [pc EXCEPT ![t] = "awaiting"]
    /\ running' = IF running = t THEN 0 ELSE running
    /\ UNCHANGED <<hook_vars, loop_state, obs_vars, turn_vars, io_vars>>

AsyncResume == \E t \in Tasks : Resume(t)

AsyncUpdatePlan ==
    \E t \in Tasks, c \in Opt(RunPhaseIds), g \in Opt(RunGoals), p \in Opt(RunPhaseLists) :
        AsyncInvoke(t, agent_update_plan(c, g, p), "agent_update_plan")

AsyncAdvancePhase ==
    \E t \in Tasks, f \in RunPhaseIds, to \in RunPhaseIds :
        AsyncInvoke(t, agent_advance_phase(f, to), "agent_advance_phase")

AsyncEndTask == \E t \in Tasks : AsyncInvoke(t, agent_end_task, "agent_end_task")

AsyncOtherTool ==
    \E t \in Tasks, ok \in BOOLEAN : AsyncInvoke(t, other_tool("file_write", ok), "file_write")

\* Task t runs on_tool_end to its end.
AsyncToolEnd ==
    \E t \in Tasks :
        /\ Running
        /\ pc[t] = "hook"
        /\ on_tool_end
        /\ hooks_due' = hooks_due - 1
        /\ pc' = [pc EXCEPT ![t] = "done"]
        /\ running' = IF running = t THEN 0 ELSE running
        /\ UNCHANGED <<plan_vars, call, result, loop_vars, obs_vars, turn_vars, io_vars>>

AsyncStreamEvent ==
    /\ running = 0
    /\ run_demo_event
    /\ UNCHANGED <<plan_vars, hook_vars, hooks_due, call, result, obs_vars, turn_vars, io_vars,
                   task_vars>>

AsyncNext ==
    \/ Gather
    \/ AsyncResume
    \/ AsyncUpdatePlan
    \/ AsyncAdvancePhase
    \/ AsyncEndTask
    \/ AsyncOtherTool
    \/ AsyncToolEnd
    \/ AsyncStreamEvent

SpecAsync == Init /\ [][AsyncNext]_vars

(***************************************************************************)
(* Claims about the tools, checked under SpecTools.  Every step of         *)
(* SpecTools is one tool call, and call' and result' are its name,         *)
(* arguments and outcome.                                                  *)
(***************************************************************************)
AgentTools == {"agent_update_plan", "agent_advance_phase", "agent_end_task",
               "agent_schedule_task"}

\* C3: agent_advance_phase(from, to) raises exactly when from differs from
\* current_phase_id, and then leaves current_phase_id as it was; otherwise it
\* returns and current_phase_id becomes to.
C3_AdvanceValidatesFrom ==
    [][ call'.tool = "agent_advance_phase" =>
          LET f == call'.args[1]
              t == call'.args[2]
          IN  /\ ~result'.ok <=> current_phase_id # Some(f)
              /\ ~result'.ok => /\ result'.error = "ValueError"
                                /\ current_phase_id' = current_phase_id
              /\ result'.ok => current_phase_id' = Some(t) ]_vars

\* Current phase 3: advance_phase(from=2, to=3) has failed.
C3_Witness ==
    /\ call.tool = "agent_advance_phase"
    /\ call.args = <<2, 3>>
    /\ ~result.ok
    /\ current_phase_id = Some(3)

\* C4 (I2) as claimed: a call of agent_advance_phase whose to is not from + 1
\* raises and leaves current_phase_id as it was.
C4_OnlyNextPhase ==
    [][ (call'.tool = "agent_advance_phase" /\ call'.args[2] # call'.args[1] + 1) =>
          /\ ~result'.ok
          /\ current_phase_id' = current_phase_id ]_vars

\* C5 (I1) as claimed: once a plan exists, a present current_phase_id is the
\* id of one of the phases.
C5_CurrentPhaseExists ==
    (phases # <<>> /\ current_phase_id # None) =>
        \E i \in 1..Len(phases) : phases[i].id = current_phase_id[1]

\* C7: an Agent Management tool that raises leaves every field of
\* _agent_state as it was.
C7_MutationIsolation ==
    [][ (call'.tool \in AgentTools /\ ~result'.ok) => UNCHANGED plan_vars ]_vars

\* A failed advance in a state with a plan, a completed flag and a scheduled
\* task to lose.
C7_Witness ==
    /\ call.tool = "agent_advance_phase"
    /\ ~result.ok
    /\ current_phase_id = Some(1)
    /\ phases = ReportPhases
    /\ completed
    /\ scheduled_tasks # <<>>

\* C8: agent_update_plan returns, sets each of current_phase_id, goal and
\* phases that is passed, keeps each that is not, and never changes completed
\* or scheduled_tasks.
C8_PartialUpdate ==
    [][ call'.tool = "agent_update_plan" =>
          LET c == call'.args[1]
              g == call'.args[2]
              p == call'.args[3]
          IN  /\ result'.ok
              /\ current_phase_id' = IF c = None THEN current_phase_id ELSE c
              /\ goal' = IF g = None THEN goal ELSE g
              /\ phases' = IF p = None THEN phases ELSE p[1]
              /\ completed' = completed
              /\ scheduled_tasks' = scheduled_tasks ]_vars

\* Only the goal was passed, and the phase id and phases set before are kept.
C8_Witness ==
    /\ call.tool = "agent_update_plan"
    /\ call.args = <<None, Some("summarise"), None>>
    /\ current_phase_id = Some(2)
    /\ goal = Some("summarise")
    /\ phases = LongPhases
    /\ completed
    /\ scheduled_tasks # <<>>

\* C10: agent_end_task returns, leaves completed true and the other fields
\* as they were, and changes nothing when completed was true already.
C10_EndTask ==
    [][ call'.tool = "agent_end_task" =>
          /\ result'.ok
          /\ completed' = TRUE
          /\ UNCHANGED <<current_phase_id, goal, phases, scheduled_tasks>>
          /\ completed => UNCHANGED plan_vars ]_vars

\* agent_end_task called again after completion, with a plan and a
\* scheduled task in place.
C10_Witness ==
    /\ call.tool = "agent_end_task"
    /\ completed
    /\ current_phase_id = Some(2)
    /\ goal # None
    /\ phases # <<>>
    /\ scheduled_tasks # <<>>

\* C11: agent_schedule_task raises ValueError exactly when start_time does
\* not parse, and then leaves scheduled_tasks as it was; otherwise it returns,
\* scheduled_tasks is the earlier list, in its order, with one entry for the
\* call added at the end (also when an equal entry is in the list already),
\* and no other field of _agent_state changes.
C11_ScheduleTask ==
    [][ call'.tool = "agent_schedule_task" =>
          LET d == call'.args[1]
              k == call'.args[2]
              s == call'.args[3]
              n == Len(scheduled_tasks)
          IN  /\ ~result'.ok <=> fromisoformat(s) = ValueError
              /\ ~result'.ok => /\ result'.error = "ValueError"
                                /\ scheduled_tasks' = scheduled_tasks
              /\ result'.ok =>
                    /\ Len(scheduled_tasks') = n + 1
                    /\ SubSeq(scheduled_tasks', 1, n) = scheduled_tasks
                    /\ scheduled_tasks'[n + 1].task_description = d
                    /\ scheduled_tasks'[n + 1].schedule_type = k
                    /\ scheduled_tasks'[n + 1].start_time = fromisoformat(s)
                    /\ UNCHANGED <<current_phase_id, goal, phases, completed>> ]_vars

\* The same task has been scheduled twice, with a plan in place and the
\* task completed: two equal entries.
C11_Witness ==
    /\ call.tool = "agent_schedule_task"
    /\ result.ok
    /\ Len(scheduled_tasks) = 2
    /\ scheduled_tasks[1] = scheduled_tasks[2]
    /\ current_phase_id = Some(2)
    /\ phases = ReportPhases
    /\ completed

(***************************************************************************)
(* Claims about the run, checked under Spec.  A step that raises           *)
(* hooks_due is a tool call (call' names the tool); a step that lowers it  *)
(* is a firing of on_tool_end.                                             *)
(***************************************************************************)
\* C1 as claimed: when every tool call so far was followed by its hook
\* firing before the next call, the hook has fired without raising and
\* current_phase_id has been set, the text holds exactly one phase clause
\* and it is the clause of current_phase_id.
C1_SingleClause ==
    (/\ serial
     /\ hooks_due = 0
     /\ since_fire # "never"
     /\ ~run_error
     /\ current_phase_id # None) =>
        /\ Len(Clauses(instructions)) = 1
        /\ Clauses(instructions)[1].phase_id = current_phase_id[1]

\* C2: a firing of on_tool_end, when current_phase_id has not changed
\* since the previous firing, leaves the instruction text as it is.
C2_Idempotent ==
    [][ (hooks_due' = hooks_due - 1 /\ since_fire = "same") =>
          instructions' = instructions ]_vars

\* The hook has fired for a plan update and then again for a file_write
\* that left the phase alone.
C2_Witness ==
    /\ serial
    /\ hooks_due = 0
    /\ since_fire = "same"
    /\ call.tool = "file_write"
    /\ current_phase_id = Some(1)
    /\ Len(Clauses(instructions)) = 1

C6_Clause1 == PhaseClause(1, Some("write report"), ReportPhases[1])
C6_Clause2 == PhaseClause(2, Some("write report"), ReportPhases[2])

\* C6: along the end-to-end scenario, the first hook firing appends the
\* phase-1 clause; file_write and its firing leave the text alone;
\* advance_phase(1, 2) returns and its firing leaves exactly the phase-2
\* clause; once the agent_end_task event has been taken from the stream
\* the loop is Terminated, and a Terminated loop takes no further event.
C6_EndToEnd ==
    /\ [](/\ e2e = 1 => instructions = <<Prompt>>
          /\ e2e \in 2..5 => instructions = <<Prompt, Sep, C6_Clause1>>
          /\ e2e \in 5..Len(Scenario) => (result.ok /\ current_phase_id = Some(2))
          /\ e2e \in 6..Len(Scenario) =>
                /\ Clauses(instructions) = <<C6_Clause2>>
                /\ instructions = <<Prompt, Sep, Sep, C6_Clause2>>
          /\ (e2e = Len(Scenario) /\ ~Contains(events, ToolCallEvent("agent_end_task")))
                => loop_state = "Terminated")
    /\ [][loop_state = "Terminated" => UNCHANGED <<events, loop_state>>]_vars

\* The scenario has run to its end and the loop has stopped.
C6_Witness ==
    /\ e2e = Len(Scenario)
    /\ loop_state = "Terminated"
    /\ completed

\* C9 (I3): no step other than a call of agent_update_plan takes completed
\* from true to false.
C9_CompletedMonotonic ==
    [][ (completed /\ ~(call'.tool = "agent_update_plan" /\ hooks_due' = hooks_due + 1))
          => completed' ]_vars

\* After the task was ended, a phase advance succeeded, a task was
\* scheduled and the hook has fired for them.
C9_Witness ==
    /\ completed
    /\ call.tool = "agent_advance_phase"
    /\ result.ok
    /\ scheduled_tasks # <<>>
    /\ hooks_due = 0
    /\ since_fire = "same"

\* C12: a step in which the loop takes an event from the stream leaves it
\* Terminated when the event is the tool call of agent_end_task and Running
\* for every other event; a Terminated loop takes no event any more,
\* whatever is waiting in the stream.
C12_TerminalShortCircuit ==
    [][ /\ (loop_state = "Running" /\ Len(events') = Len(events) - 1) =>
             /\ events' = Tail(events)
             /\ loop_state' = IF Head(events) = ToolCallEvent("agent_end_task")
                              THEN "Terminated" ELSE "Running"
        /\ loop_state = "Terminated" => UNCHANGED <<events, loop_state>> ]_vars

\* The loop has stopped on agent_end_task with the tool call the runner
\* emitted after it still waiting in the stream.
C12_Witness ==
    /\ loop_state = "Terminated"
    /\ completed
    /\ events = <<ToolCallEvent("file_write")>>

C20_ClauseIsCurrent ==
    (/\ hooks_due = 0
     /\ since_fire # "never"
     /\ ~run_error
     /\ current_phase_id # None) =>
        \E i \in 1..Len(phases) :
            /\ phases[i].id = current_phase_id[1]
            /\ Contains(instructions, PhaseClause(current_phase_id[1], goal, phases[i]))

(***************************************************************************)
(* Claims about the end of the run, checked under SpecTurns.               *)
(***************************************************************************)
\* C14 as claimed: a run whose turn count has passed max_turns ends as an
\* incomplete run and not as an error: no exception has failed the run and
\* none is raised into run_demo.
C14_ExhaustionIsNoError ==
    turn > max_turns => (~run_error /\ loop_state # "Raised")

(***************************************************************************)
(* Claims about the tool calls of one turn, checked under SpecAsync.       *)
(***************************************************************************)
\* C15: also with several tool calls in one turn, no two tasks are inside a
\* tool function or on_tool_end at the same time; while a task is inside
\* one, _agent_state, agent.instructions and the hook's phase id are
\* written by no step but its own; and events leave the stream in the
\* order in which they entered it.
C15_Serialized ==
    /\ [](\A t, u \in Tasks : (InBody(t) /\ InBody(u)) => t = u)
    /\ [][ /\ \A t \in Tasks :
                (/\ InBody(t)
                 /\ <<plan_vars, instructions, hook_current_phase_id>>' #
                        <<plan_vars, instructions, hook_current_phase_id>>)
                    => pc'[t] # pc[t]
           /\ events' # events =>
                \/ events # <<>> /\ events' = Tail(events)
                \/ \E name \in AgentTools \cup OtherTools :
                       events' = Append(events, ToolCallEvent(name)) ]_vars

\* Two tool calls of one turn: the plan update of the first has run and its
\* on_tool_end has not, and the second is inside its tool function.
C15_Witness ==
    /\ pc[1] = "awaiting"
    /\ pc[2] = "tool"
    /\ running = 2
    /\ call.tool = "agent_update_plan"
    /\ current_phase_id = Some(1)
    /\ hook_current_phase_id = None

(***************************************************************************)
(* Claims about rendering, checked under SpecRender.                       *)
(***************************************************************************)
\* C16: get_tool_description returns for every name and every argument
\* mapping, also one without the keys its renderer reads: the renderer's
\* string for a registered name (a missing key reads as None) and
\* "Using tool: <name>" for any other; and run_demo, when the arguments do
\* not decode or the renderer raises, prints the raw name and the raw
\* arguments instead of the description and stays Running.
C16_RenderNeverFails ==
    [][ /\ call'.tool = "get_tool_description" =>
             LET name == call'.args[1]
                 args == call'.args[2]
             IN  /\ output'.ok
                 /\ name \notin RegisteredTools
                        => output'.text = <<"Using tool: ", name>>
                 /\ name \in RegisteredTools =>
                        LET parts == tool_description_map[name] IN
                        /\ Len(output'.text) = Len(parts)
                        /\ \A i \in 1..Len(parts) :
                              output'.text[i] =
                                 IF parts[i].key = "" THEN parts[i].lit
                                 ELSE IF parts[i].key \notin DOMAIN args.items THEN "None"
                                 ELSE str(args.items[parts[i].key])
        /\ (call'.tool # "get_tool_description" /\ call' # call) =>
             LET name == call'.tool
                 arguments == call'.args[1]
                 reads == \E i \in 1..Len(tool_description_map[name]) :
                             tool_description_map[name][i].key # ""
                 fails == \/ arguments.shape = "malformed"
                          \/ /\ arguments.shape = "array"
                             /\ name \in RegisteredTools
                             /\ reads
             IN  /\ loop_state' = "Running"
                 /\ output'.ok
                 /\ output'.text[1] = "[Tool Call] "
                 /\ fails <=> output'.raw # NoRaw
                 /\ fails => /\ output'.text = <<"[Tool Call] ", name, "Arguments: ">>
                             /\ output'.raw = arguments
                 /\ ~fails => Tail(output'.text) =
                                 get_tool_description(name, json_loads(
                                     IF arguments.shape = "absent"
                                     THEN JsonText("object", <<>>) ELSE arguments)).text ]_vars

\* file_copy described from a mapping that has a destination and no source.
C16_Witness ==
    /\ call.tool = "get_tool_description"
    /\ call.args[1] = "file_copy"
    /\ DOMAIN call.args[2].items = {"destination"}
    /\ output = Returned(<<"Copying ", "None", " to ", "notes.txt">>)

(***************************************************************************)
(* Claims about the file tools, checked under SpecFiles.                   *)
(***************************************************************************)
\* C17 as claimed: file_replace_text on an existing file raises and leaves
\* the file as it was when old_text occurs in it not at all or more than
\* once, and with exactly one occurrence it returns and the file is the
\* old content with that occurrence replaced by new_text.
C17_ExactlyOneMatch ==
    [][ (call'.tool = "file_replace_text" /\ call'.args[1] \in DOMAIN files) =>
          LET path == call'.args[1]
              old_text == call'.args[2]
              new_text == call'.args[3]
              content == files[path]
              found == str_count(content, old_text)
          IN  /\ found # 1 => (~output'.ok /\ files' = files)
              /\ found = 1 => /\ output'.ok
                              /\ files'[path] = str_replace(content, old_text, new_text) ]_vars

\* C18: file_read with a line range on an existing file of n lines raises
\* ValueError exactly when start < 0, end > n or start >= end, an absent
\* start_line being 0 and an absent end_line n; otherwise it returns the
\* lines start..end-1, counted from 0, joined by newlines.  It never
\* changes a file.
C18_ReadRange ==
    [][ (/\ call'.tool = "file_read"
         /\ call'.args[1] \in DOMAIN files
         /\ (call'.args[2] # None \/ call'.args[3] # None)) =>
          LET lines == splitlines(files[call'.args[1]])
              n == Len(lines)
              start == IF call'.args[2] = None THEN 0 ELSE call'.args[2][1]
              end == IF call'.args[3] = None THEN n ELSE call'.args[3][1]
          IN  /\ ~output'.ok <=> (start < 0 \/ end > n \/ start >= end)
              /\ ~output'.ok => output'.error = "ValueError"
              /\ output'.ok =>
                    output'.text = join("\n", [i \in 1..(end - start) |-> lines[start + i]])
              /\ files' = files ]_vars

\* file_read(start_line=3, end_line=2) has failed on a file of 5 lines.
C18_Witness ==
    /\ call.tool = "file_read"
    /\ call.args = <<"notes.txt", Some(3), Some(2)>>
    /\ "notes.txt" \in DOMAIN files
    /\ Len(splitlines(files["notes.txt"])) = 5
    /\ output = Failed("ValueError")

(***************************************************************************)
(* Claims about message_ask_user, checked under SpecMessages.              *)
(***************************************************************************)
\* C19 as claimed: message_ask_user called with options = [] raises and
\* does not wait for input.
C19_EmptyOptionsFail ==
    [][ (/\ call'.tool = "message_ask_user"
         /\ ~awaiting_input
         /\ call'.args[3] = Some(<<>>)) =>
          (~output'.ok /\ ~awaiting_input') ]_vars

(***************************************************************************)
(* SpecSnapshots: agent_update_plan and agent_advance_phase called         *)
(* directly, with the dictionary each returns.  The text of "response" is  *)
(* an f-string over _agent_state, read when the return statement runs,     *)
(* that is, after the assignments above it.                                *)
(***************************************************************************)
\* str() of _agent_state['current_phase_id'] inside the f-string.
FormatId(c) == IF c = None THEN "None" ELSE ToString(c[1])

\* tools.py:107-109: the fields the f-string of agent_update_plan names,
\* with g, p and c the goal, phases and current_phase_id it reads.
update_plan_response(g, p, c) ==
    [goal |-> FormatGoal(g), phases |-> p, current |-> FormatId(c)]

\* tools.py:131-133: the fields the f-string of agent_advance_phase names,
\* with g, p and c the goal, phases and current_phase_id it reads and t
\* the argument to_phase_id.
advance_phase_response(g, p, c, t) ==
    [goal |-> FormatGoal(g), phases |-> p, previous |-> FormatId(c),
     next |-> ToString(t)]

ReturnUpdatePlan ==
    \E c \in Opt(PhaseIds), g \in Opt(Goals), p \in Opt(PhaseLists) :
        /\ agent_update_plan(c, g, p)
        /\ call' = Request("agent_update_plan", <<c, g, p>>)
        /\ output' = Returned(<<update_plan_response(goal', phases', current_phase_id')>>)
        /\ UNCHANGED <<hook_vars, hooks_due, loop_vars, obs_vars, turn_vars, task_vars,
                       files, awaiting_input>>

ReturnAdvancePhase ==
    \E f \in PhaseIds, t \in PhaseIds :
        /\ agent_advance_phase(f, t)
        /\ call' = Request("agent_advance_phase", <<f, t>>)
        /\ output' = IF result'.ok
                     THEN Returned(<<advance_phase_response(goal', phases',
                                                            current_phase_id', t)>>)
                     ELSE Failed(result'.error)
        /\ UNCHANGED <<hook_vars, hooks_due, loop_vars, obs_vars, turn_vars, task_vars,
                       files, awaiting_input>>

SnapshotsNext ==
    \/ ReturnUpdatePlan
    \/ ReturnAdvancePhase

SpecSnapshots == Init /\ [][SnapshotsNext]_vars

(***************************************************************************)
(* Claims about the returned snapshots, checked under SpecSnapshots.       *)
(***************************************************************************)
\* C22 as claimed: the snapshot a successful agent_advance_phase(from_phase_id,
\* to_phase_id) returns names from_phase_id as the previous phase and
\* to_phase_id as the next phase.
C22_SnapshotPreviousNext ==
    [][ (call'.tool = "agent_advance_phase" /\ output'.ok) =>
          /\ output'.text[1].previous = ToString(call'.args[1])
          /\ output'.text[1].next = ToString(call'.args[2]) ]_vars

(***************************************************************************)
(* Claims about the hook and the plan tools within a run.                  *)
(***************************************************************************)
\* C21 as claimed: every firing of on_tool_end completes without raising,
\* whatever agent_update_plan and agent_advance_phase have stored before
\* it (a phase id with an empty or shorter phases list included).
C21_HookNeverRaises ==
    [][ hooks_due' = hooks_due - 1 => ~run_error' ]_vars

\* C23: agent.instructions always begins with the original prompt; a step
\* that changes agent.instructions is a firing of on_tool_end; and what
\* such a step takes out of the text is phase clauses only (every clause
\* in the text was appended by an earlier firing, the text being the bare
\* prompt at the start): the pieces that are not clauses stay, in order,
\* at the head of the new text.
C23_PromptIntact ==
    /\ [](instructions # <<>> /\ instructions[1] = Prompt)
    /\ [][ instructions' # instructions => hooks_due' = hooks_due - 1 ]_vars
    /\ [][ LET Rest(text) == SelectSeq(text, LAMBDA x : ~IsClause(x))
           IN  /\ Len(Rest(instructions)) <= Len(Rest(instructions'))
               /\ SubSeq(Rest(instructions'), 1, Len(Rest(instructions)))
                      = Rest(instructions) ]_vars

\* The hook has appended the clause of phase 1, then removed it and
\* appended the clause of phase 2, and a later message_notify_user call
\* and its hook firing have left the text alone.
C23_Witness ==
    /\ Len(instructions) = 4
    /\ instructions[1] = Prompt
    /\ instructions[2] = Sep
    /\ instructions[3] = Sep
    /\ IsClause(instructions[4])
    /\ instructions[4].phase_id = 2
    /\ call.tool = "message_notify_user"
    /\ hooks_due = 0
    /\ ~run_error

(***************************************************************************)
(* SpecStream: one tool call of a streamed run, from the model's response  *)
(* to run_demo's loop.  The tool functions run in the runner's task and    *)
(* run_demo's loop is another task that takes events from the stream's     *)
(* queue.  Nothing in run.py orders the two: the runner queues the         *)
(* tool-call event either when the model's response has delivered the call *)
(* (before the tool function runs) or with the other items of the step     *)
(* (after the tool function and on_tool_end have run).  pc[1] is the       *)
(* runner's position in the call:                                          *)
(*   "done"       no call outstanding                                      *)
(*   "requested"  the response names the call; no event queued             *)
(*   "announced"  the tool-call event is queued; the tool has not run      *)
(*   "hook"       the tool has run; no event queued                        *)
(*   "hook_announced"  the tool has run; the event is queued               *)
(*   "collected"  tool and hook have run; the event is still to be queued  *)
(***************************************************************************)
StreamTools == {"agent_end_task", "agent_update_plan", "file_write"}

\* The model's response names a tool call.
StreamRequest ==
    /\ Running
    /\ ~run_error
    /\ pc[1] = "done"
    /\ Len(instructions) + 2 <= MaxText
    /\ \E name \in StreamTools : call' = Request(name, <<>>)
    /\ pc' = [pc EXCEPT ![1] = "requested"]
    /\ UNCHANGED <<plan_vars, hook_vars, hooks_due, result, loop_vars, obs_vars, turn_vars,
                   running, io_vars>>

\* The runner queues the tool-call event as soon as the response has
\* delivered the call.
StreamAnnounce ==
    /\ Running
    /\ pc[1] = "requested"
    /\ Len(events) < MaxQueue
    /\ events' = Append(events, ToolCallEvent(call.tool))
    /\ pc' = [pc EXCEPT ![1] = "announced"]
    /\ UNCHANGED <<plan_vars, hook_vars, hooks_due, call, result, loop_state, obs_vars,
                   turn_vars, running, io_vars>>

\* The runner's task runs the tool function of the call.
StreamExecute(executes, name) ==
    /\ Running
    /\ pc[1] \in {"requested", "announced"}
    /\ call.tool = name
    /\ executes
    /\ hooks_due' = hooks_due + 1
    /\ pc' = [pc EXCEPT ![1] = IF pc[1] = "announced" THEN "hook_announced" ELSE "hook"]
    /\ UNCHANGED <<hook_vars, call, loop_vars, obs_vars, turn_vars, running, io_vars>>

StreamEndTask == StreamExecute(agent_end_task, "agent_end_task")

StreamUpdatePlan ==
    \E c \in Opt(RunPhaseIds), g \in Opt(RunGoals), p \in Opt(RunPhaseLists) :
        StreamExecute(agent_update_plan(c, g, p), "agent_update_plan")

StreamOtherTool ==
    \E ok \in BOOLEAN : StreamExecute(other_tool("file_write", ok), "file_write")

\* The runner's task runs on_tool_end for the call.
StreamToolEnd ==
    /\ Running
    /\ pc[1] \in {"hook", "hook_announced"}
    /\ on_tool_end
    /\ hooks_due' = hooks_due - 1
    /\ pc' = [pc EXCEPT ![1] = IF pc[1] = "hook_announced" THEN "done" ELSE "collected"]
    /\ UNCHANGED <<plan_vars, call, result, loop_vars, obs_vars, turn_vars, running, io_vars>>

\* The runner queues the items of the finished step.
StreamCollect ==
    /\ Running
    /\ pc[1] = "collected"
    /\ Len(events) < MaxQueue
    /\ events' = Append(events, ToolCallEvent(call.tool))
    /\ pc' = [pc EXCEPT ![1] = "done"]
    /\ UNCHANGED <<plan_vars, hook_vars, hooks_due, call, result, loop_state, obs_vars,
                   turn_vars, running, io_vars>>

\* run_demo's loop takes the next event.
StreamConsume ==
    /\ run_demo_event
    /\ UNCHANGED <<plan_vars, hook_vars, hooks_due, call, result, obs_vars, turn_vars,
                   task_vars, io_vars>>

StreamNext ==
    \/ StreamRequest
    \/ StreamAnnounce
    \/ StreamEndTask
    \/ StreamUpdatePlan
    \/ StreamOtherTool
    \/ StreamToolEnd
    \/ StreamCollect
    \/ StreamConsume

SpecStream == Init /\ [][StreamNext]_vars

(***************************************************************************)
(* Claims about the order of the terminal tool and the loop's end, checked *)
(* under SpecStream.                                                       *)
(***************************************************************************)
\* C24 as claimed: whenever run_demo's loop has left by the agent_end_task
\* tool-call event, _agent_state["completed"] is True.
C24_TerminatedImpliesCompleted ==
    loop_state = "Terminated" => completed

====
